---------------------------- MODULE Spec2Model ----------------------------
(***************************************************************************)
(* A model of go-pep440-version: the PEP 440 version grammar and           *)
(* normaliser, the version comparator, and the specifier operators with    *)
(* their OR-of-AND composition (specifier.go).                            *)
(*                                                                         *)
(* Strings are sequences of one-character strings, so that parsing,        *)
(* formatting, splitting and prefix matching work on the text itself.      *)
(***************************************************************************)
EXTENDS Integers, Sequences, FiniteSets, TLC

VARIABLES
    input,       \* the text last handed to Parse
    candidate,   \* what Parse returned for it
    constraints, \* what NewSpecifiers returned
    result,      \* what Check returned for candidate and constraints
    operands,    \* three version texts to be compared
    order,       \* the parsed operands and what the comparison methods returned
    roundtrip    \* a text parsed, formatted, parsed again and formatted again

vars == <<input, candidate, constraints, result, operands, order, roundtrip>>

(***************************************************************************)
(* Text helpers (Go's strings and strconv packages)                        *)
(***************************************************************************)
Digits == <<"0", "1", "2", "3", "4", "5", "6", "7", "8", "9">>

UpperLetters == <<"A", "B", "C", "D", "E", "F", "G", "H", "I", "J", "K", "L", "M",
                  "N", "O", "P", "Q", "R", "S", "T", "U", "V", "W", "X", "Y", "Z">>

LowerLetters == <<"a", "b", "c", "d", "e", "f", "g", "h", "i", "j", "k", "l", "m",
                  "n", "o", "p", "q", "r", "s", "t", "u", "v", "w", "x", "y", "z">>

Range(s) == {s[i] : i \in 1..Len(s)}

IndexOf(s, c) == CHOOSE i \in 1..Len(s) : s[i] = c

IsDigit(c) == c \in Range(Digits)

IsSpace(c) == c \in {" ", "\t", "\n"}

IsSeparator(c) == c \in {".", "-", "_"}

ToLowerChar(c) == IF c \in Range(UpperLetters) THEN LowerLetters[IndexOf(UpperLetters, c)] ELSE c

IsAlnum(c) == IsDigit(c) \/ ToLowerChar(c) \in Range(LowerLetters)

ToLower(s) == [i \in 1..Len(s) |-> ToLowerChar(s[i])]

\* s[from..to], empty when from > to
Slice(s, from, to) == [i \in 1..(to - from + 1) |-> s[from + i - 1]]

Drop(s, n) == Slice(s, n + 1, Len(s))

Take(s, n) == Slice(s, 1, n)

RECURSIVE TrimLeft(_)
TrimLeft(s) == IF s # <<>> /\ IsSpace(s[1]) THEN TrimLeft(Tail(s)) ELSE s

RECURSIVE TrimRight(_)
TrimRight(s) == IF s # <<>> /\ IsSpace(s[Len(s)]) THEN TrimRight(Take(s, Len(s) - 1)) ELSE s

TrimSpace(s) == TrimRight(TrimLeft(s))

HasPrefix(s, p) == Len(s) >= Len(p) /\ Take(s, Len(p)) = p

HasSuffix(s, p) == Len(s) >= Len(p) /\ Drop(s, Len(s) - Len(p)) = p

TrimSuffix(s, p) == IF HasSuffix(s, p) THEN Take(s, Len(s) - Len(p)) ELSE s

\* word w stands in s at position i
HasWordAt(s, i, w) == i + Len(w) - 1 <= Len(s) /\ Slice(s, i, i + Len(w) - 1) = w

\* the position after the longest run of digits of s that starts at i
RECURSIVE DigitsEnd(_, _)
DigitsEnd(s, i) == IF i <= Len(s) /\ IsDigit(s[i]) THEN DigitsEnd(s, i + 1) ELSE i

\* the position after the longest run of letters and digits of s that starts at i
RECURSIVE AlnumEnd(_, _)
AlnumEnd(s, i) == IF i <= Len(s) /\ IsAlnum(s[i]) THEN AlnumEnd(s, i + 1) ELSE i

\* strconv.ParseUint / strconv.Atoi on a run of digits: leading zeros vanish
RECURSIVE Atoi(_)
Atoi(s) == IF s = <<>> THEN 0 ELSE 10 * Atoi(Take(s, Len(s) - 1)) + (IndexOf(Digits, s[Len(s)]) - 1)

AllDigits(s) == s # <<>> /\ \A i \in 1..Len(s) : IsDigit(s[i])

\* fmt's %d
RECURSIVE Itoa(_)
Itoa(n) == IF n < 10 THEN <<Digits[n + 1]>> ELSE Itoa(n \div 10) \o <<Digits[(n % 10) + 1]>>

\* strings.Split(s, sep) for a one-character separator
RECURSIVE Split(_, _)
Split(s, sep) ==
    IF \E i \in 1..Len(s) : s[i] = sep
    THEN LET i == CHOOSE j \in 1..Len(s) : s[j] = sep /\ \A k \in 1..(j - 1) : s[k] # sep
         IN  <<Take(s, i - 1)>> \o Split(Drop(s, i), sep)
    ELSE <<s>>

\* strings.Join(parts, sep)
RECURSIVE Join(_, _)
Join(parts, sep) ==
    IF parts = <<>> THEN <<>>
    ELSE IF Len(parts) = 1 THEN parts[1]
    ELSE parts[1] \o sep \o Join(Tail(parts), sep)

(***************************************************************************)
(* Version values                                                          *)
(***************************************************************************)
\* a letterNumber without letter is null
NullLetterNumber == [letter |-> "", number |-> 0]

isNull(ln) == ln.letter = ""

ZeroVersion ==
    [epoch |-> 0, release |-> <<>>, pre |-> NullLetterNumber, post |-> NullLetterNumber,
     dev |-> NullLetterNumber, local |-> <<>>, preReleaseIncluded |-> FALSE]

\* the spellings of the release phases, longest first where one starts another
PreWords == << <<"a", "l", "p", "h", "a">>, <<"b", "e", "t", "a">>, <<"r", "c">>,
               <<"a">>, <<"b">>, <<"c">> >>

PostWords == << <<"p", "o", "s", "t">>, <<"r", "e", "v">>, <<"r">> >>

DevWords == << <<"d", "e", "v">> >>

\* the canonical letter of a spelling
NormalLetter(w) ==
    CASE w \in {<<"a">>, <<"a", "l", "p", "h", "a">>} -> "a"
      [] w \in {<<"b">>, <<"b", "e", "t", "a">>} -> "b"
      [] w \in {<<"c">>, <<"r", "c">>} -> "rc"
      [] w \in Range(PostWords) -> "post"
      [] w \in Range(DevWords) -> "dev"

LetterText(l) ==
    CASE l = "a" -> <<"a">>
      [] l = "b" -> <<"b">>
      [] l = "rc" -> <<"r", "c">>
      [] l = "post" -> <<"p", "o", "s", "t">>
      [] l = "dev" -> <<"d", "e", "v">>
      [] OTHER -> <<>>

(***************************************************************************)
(* Parse: the version grammar                                              *)
(*   v? (N!)? N(.N)* (sep? pre sep? N?)? (-N | sep? post sep? N?)?         *)
(*   (sep? dev sep? N?)? (+local)?                                         *)
(* matched case-insensitively on the whole trimmed input.                  *)
(***************************************************************************)
\* the position after the release segment that starts at i (i itself when there is none)
RECURSIVE ReleaseEnd(_, _)
ReleaseEnd(t, i) ==
    IF DigitsEnd(t, i) = i THEN i
    ELSE IF DigitsEnd(t, i) <= Len(t) /\ t[DigitsEnd(t, i)] = "."
            /\ DigitsEnd(t, DigitsEnd(t, i) + 1) > DigitsEnd(t, i) + 1
         THEN ReleaseEnd(t, DigitsEnd(t, i) + 1)
         ELSE DigitsEnd(t, i)

\* the position after an optional separator at i
SkipSeparator(t, i) == IF i <= Len(t) /\ IsSeparator(t[i]) THEN i + 1 ELSE i

\* the first of the words that stands at q, 0 when none does
FirstWordAt(t, q, words) ==
    IF \E k \in 1..Len(words) : HasWordAt(t, q, words[k])
    THEN CHOOSE k \in 1..Len(words) :
             HasWordAt(t, q, words[k]) /\ \A j \in 1..(k - 1) : ~HasWordAt(t, q, words[j])
    ELSE 0

NoTag(i) == [pos |-> i, ln |-> NullLetterNumber]

\* the number of a tag: the digits from n to d, 0 when there are none
TagNumber(t, letter, n, d) ==
    [pos |-> d, ln |-> [letter |-> letter, number |-> Atoi(Slice(t, n, d - 1))]]

TagFrom(t, letter, n) == TagNumber(t, letter, n, DigitsEnd(t, n))

TagWord(t, i, q, words, k) ==
    IF k = 0 THEN NoTag(i)
    ELSE TagFrom(t, NormalLetter(words[k]), SkipSeparator(t, q + Len(words[k])))

TagAt(t, i, q, words) == TagWord(t, i, q, words, FirstWordAt(t, q, words))

\* a phase tag at i: optional separator, one of the words, optional separator, optional number
MatchTag(t, i, words) == TagAt(t, i, SkipSeparator(t, i), words)

\* the post release: the implicit form -N, or a post tag
MatchPost(t, i) ==
    IF i <= Len(t) /\ t[i] = "-" /\ DigitsEnd(t, i + 1) > i + 1
    THEN TagFrom(t, "post", i + 1)
    ELSE MatchTag(t, i, PostWords)

\* the position after the local label whose first segment starts at i (i itself when malformed)
RECURSIVE LocalEnd(_, _)
LocalEnd(t, i) ==
    IF AlnumEnd(t, i) = i THEN i
    ELSE IF AlnumEnd(t, i) <= Len(t) /\ IsSeparator(t[AlnumEnd(t, i)])
            /\ AlnumEnd(t, AlnumEnd(t, i) + 1) > AlnumEnd(t, i) + 1
         THEN LocalEnd(t, AlnumEnd(t, i) + 1)
         ELSE AlnumEnd(t, i)

\* the local label as stored: separators become dots
NormalLocal(l) == [i \in 1..Len(l) |-> IF IsSeparator(l[i]) THEN "." ELSE l[i]]

ParseError == [ok |-> FALSE, v |-> ZeroVersion]

Parsed(v) == [ok |-> TRUE, v |-> v]

\* the numbers of a release segment
ReleaseOf(parts) == [k \in 1..Len(parts) |-> Atoi(parts[k])]

\* the end of the match: nothing may follow the local label, which is not empty
ParseEnd(t, v, p5, p6) ==
    IF p6 = p5 + 1 \/ p6 # Len(t) + 1 THEN ParseError
    ELSE Parsed([v EXCEPT !.local = NormalLocal(Slice(t, p5 + 1, p6 - 1))])

ParseLocal(t, v, p5) ==
    IF p5 = Len(t) + 1 THEN Parsed(v)
    ELSE IF t[p5] = "+" THEN ParseEnd(t, v, p5, LocalEnd(t, p5 + 1))
    ELSE ParseError

ParseDev(t, v, dev) == ParseLocal(t, [v EXCEPT !.dev = dev.ln], dev.pos)

ParsePost(t, v, post) == ParseDev(t, [v EXCEPT !.post = post.ln], MatchTag(t, post.pos, DevWords))

ParsePre(t, v, pre) == ParsePost(t, [v EXCEPT !.pre = pre.ln], MatchPost(t, pre.pos))

ParseRelease(t, epoch, p1, p2) ==
    IF p2 = p1 THEN ParseError
    ELSE ParsePre(t, [ZeroVersion EXCEPT !.epoch = epoch,
                                         !.release = ReleaseOf(Split(Slice(t, p1, p2 - 1), "."))],
                  MatchTag(t, p2, PreWords))

ParseEpoch(t, p0, e) ==
    IF e > p0 /\ e <= Len(t) /\ t[e] = "!"
    THEN ParseRelease(t, Atoi(Slice(t, p0, e - 1)), e + 1, ReleaseEnd(t, e + 1))
    ELSE ParseRelease(t, 0, p0, ReleaseEnd(t, p0))

ParseFrom(t, p0) == ParseEpoch(t, p0, DigitsEnd(t, p0))

ParseText(t) == ParseFrom(t, IF t # <<>> /\ t[1] = "v" THEN 2 ELSE 1)

Parse(s) == ParseText(ToLower(TrimSpace(s)))

\* MustParse panics on a malformed version; callers are checked to never pass one
MustParse(s) == Parse(s).v

(***************************************************************************)
(* String, Public, BaseVersion: the canonical forms                        *)
(***************************************************************************)
ReleaseText(release) == Join([k \in 1..Len(release) |-> Itoa(release[k])], <<".">>)

EpochText(v) == IF v.epoch # 0 THEN Itoa(v.epoch) \o <<"!">> ELSE <<>>

\* String as it would be if it left out the epoch
StringWithoutEpoch(v) ==
    IF v.release = <<>> THEN <<>>
    ELSE ReleaseText(v.release)
         \o (IF isNull(v.pre) THEN <<>> ELSE LetterText(v.pre.letter) \o Itoa(v.pre.number))
         \o (IF isNull(v.post) THEN <<>> ELSE <<".">> \o LetterText("post") \o Itoa(v.post.number))
         \o (IF isNull(v.dev) THEN <<>> ELSE <<".">> \o LetterText("dev") \o Itoa(v.dev.number))
         \o (IF v.local = <<>> THEN <<>> ELSE <<"+">> \o v.local)

String(v) ==
    IF v.release = <<>> THEN <<>>
    ELSE EpochText(v) \o ReleaseText(v.release)
         \o (IF isNull(v.pre) THEN <<>> ELSE LetterText(v.pre.letter) \o Itoa(v.pre.number))
         \o (IF isNull(v.post) THEN <<>> ELSE <<".">> \o LetterText("post") \o Itoa(v.post.number))
         \o (IF isNull(v.dev) THEN <<>> ELSE <<".">> \o LetterText("dev") \o Itoa(v.dev.number))
         \o (IF v.local = <<>> THEN <<>> ELSE <<"+">> \o v.local)

\* the version without its local label
Public(v) == Split(String(v), "+")[1]

\* epoch and release only
BaseVersion(v) == EpochText(v) \o ReleaseText(v.release)

IsPreRelease(v) == IF v.preReleaseIncluded THEN FALSE ELSE ~isNull(v.pre) \/ ~isNull(v.dev)

IsPostRelease(v) == ~isNull(v.post)

(***************************************************************************)
(* The comparator: the key (epoch, release, pre, post, dev, local),        *)
(* compared in this order                                                  *)
(***************************************************************************)
CompareInt(x, y) == IF x < y THEN -1 ELSE IF x > y THEN 1 ELSE 0

\* lexicographic comparison of two sequences of integers of the same length
RECURSIVE CompareInts(_, _)
CompareInts(x, y) ==
    IF x = <<>> THEN 0
    ELSE IF x[1] # y[1] THEN CompareInt(x[1], y[1])
    ELSE CompareInts(Tail(x), Tail(y))

\* the first result that is not 0, or 0
RECURSIVE FirstDifference(_)
FirstDifference(results) ==
    IF results = <<>> THEN 0
    ELSE IF results[1] # 0 THEN results[1]
    ELSE FirstDifference(Tail(results))

\* the release segments, the shorter one padded with zeros on the right
PadZeros(r, n) == [k \in 1..n |-> IF k <= Len(r) THEN r[k] ELSE 0]

MaxOf(x, y) == IF x > y THEN x ELSE y

MinOf(x, y) == IF x < y THEN x ELSE y

\* CompareRelease as it would be without padding: only the common positions count
CompareReleaseCommon(r1, r2) ==
    CompareInts(Take(r1, MinOf(Len(r1), Len(r2))), Take(r2, MinOf(Len(r1), Len(r2))))

CompareRelease(r1, r2) ==
    CompareInts(PadZeros(r1, MaxOf(Len(r1), Len(r2))), PadZeros(r2, MaxOf(Len(r1), Len(r2))))

LetterRank(l) == CASE l = "a" -> 1 [] l = "b" -> 2 [] l = "rc" -> 3 [] OTHER -> 0

\* the keys: <<-1>> padded is minus infinity, <<1, ..>> plus infinity, <<0, ..>> a value
NegativeInfinity == <<-1, 0, 0>>

Infinity == <<1, 0, 0>>

ValueKey(ln) == <<0, LetterRank(ln.letter), ln.number>>

\* PreKey as it would be without the special case for a lone dev release
PreKeyPlain(v) == IF isNull(v.pre) THEN <<1, 0, 0>> ELSE <<0, LetterRank(v.pre.letter), v.pre.number>>

\* a dev release without pre and post release sorts before every pre-release;
\* otherwise no pre-release sorts after every pre-release
PreKey(v) ==
    IF isNull(v.pre) /\ isNull(v.post) /\ ~isNull(v.dev) THEN NegativeInfinity
    ELSE IF isNull(v.pre) THEN Infinity
    ELSE ValueKey(v.pre)

\* no post release sorts before every post release
PostKey(v) == IF isNull(v.post) THEN NegativeInfinity ELSE ValueKey(v.post)

\* no dev release sorts after every dev release
DevKey(v) == IF isNull(v.dev) THEN Infinity ELSE ValueKey(v.dev)

\* the byte order of the characters of a local segment
CharRank(c) ==
    IF IsDigit(c) THEN IndexOf(Digits, c)
    ELSE IF c \in Range(LowerLetters) THEN 10 + IndexOf(LowerLetters, c)
    ELSE 0

\* Go's string comparison: byte-wise, a strict prefix is smaller
RECURSIVE CompareText(_, _)
CompareText(x, y) ==
    IF x = <<>> /\ y = <<>> THEN 0
    ELSE IF x = <<>> THEN -1
    ELSE IF y = <<>> THEN 1
    ELSE IF x[1] # y[1] THEN CompareInt(CharRank(x[1]), CharRank(y[1]))
    ELSE CompareText(Tail(x), Tail(y))

\* CompareSegment as it would be with numbers sorting below words
CompareSegmentNumberLow(x, y) ==
    IF AllDigits(x) /\ AllDigits(y) THEN CompareInt(Atoi(x), Atoi(y))
    ELSE IF AllDigits(x) THEN -1
    ELSE IF AllDigits(y) THEN 1
    ELSE CompareText(x, y)

\* two local segments: numbers as integers, a number above a word, words as strings
CompareSegment(x, y) ==
    IF AllDigits(x) /\ AllDigits(y) THEN CompareInt(Atoi(x), Atoi(y))
    ELSE IF AllDigits(x) THEN 1
    ELSE IF AllDigits(y) THEN -1
    ELSE CompareText(x, y)

\* two lists of local segments: position by position, a strict prefix is smaller
RECURSIVE CompareSegments(_, _)
CompareSegments(x, y) ==
    IF x = <<>> /\ y = <<>> THEN 0
    ELSE IF x = <<>> THEN -1
    ELSE IF y = <<>> THEN 1
    ELSE FirstDifference(<<CompareSegment(x[1], y[1]), CompareSegments(Tail(x), Tail(y))>>)

\* no local label sorts before every local label
CompareLocal(l1, l2) ==
    IF l1 = <<>> /\ l2 = <<>> THEN 0
    ELSE IF l1 = <<>> THEN -1
    ELSE IF l2 = <<>> THEN 1
    ELSE CompareSegments(Split(l1, "."), Split(l2, "."))

Compare(v, other) ==
    FirstDifference(<<CompareInt(v.epoch, other.epoch),
                      CompareRelease(v.release, other.release),
                      CompareInts(PreKey(v), PreKey(other)),
                      CompareInts(PostKey(v), PostKey(other)),
                      CompareInts(DevKey(v), DevKey(other)),
                      CompareLocal(v.local, other.local)>>)

Equal(v, o) == Compare(v, o) = 0

GreaterThan(v, o) == Compare(v, o) > 0

GreaterThanOrEqual(v, o) == Compare(v, o) >= 0

LessThan(v, o) == Compare(v, o) < 0

LessThanOrEqual(v, o) == Compare(v, o) <= 0

(***************************************************************************)
(* specifier.go: token lists for prefix matching                           *)
(***************************************************************************)
Wildcard == <<".", "*">>

\* the length of the letters a, b, c or rc at d, 0 when none stands there
prefixLetters(t, d) ==
    IF HasWordAt(t, d, <<"r", "c">>) THEN 2
    ELSE IF d <= Len(t) /\ t[d] \in {"a", "b", "c"} THEN 1 ELSE 0

prefixGroups(t, d, w) ==
    IF d > 1 /\ w > 0 /\ AllDigits(Drop(t, d + w - 1))
    THEN <<Take(t, d - 1), Drop(t, d - 1)>>
    ELSE <<>>

\* prefixRegexp ^([0-9]+)((?:a|b|c|rc)[0-9]+)$ : the two groups, or <<>> when no match
prefixMatch(t) == prefixGroups(t, DigitsEnd(t, 1), prefixLetters(t, DigitsEnd(t, 1)))

\* a part and what prefixRegexp finds in it
splitToken(part, match) == IF match # <<>> THEN match ELSE <<part>>

RECURSIVE splitTokens(_)
splitTokens(parts) ==
    IF parts = <<>> THEN <<>>
    ELSE splitToken(parts[1], prefixMatch(parts[1])) \o splitTokens(Tail(parts))

versionSplit(version) == splitTokens(Split(version, "."))

\* strconv.Atoi accepts an optional sign followed by digits
isDigist(t) == AllDigits(t) \/ (t # <<>> /\ t[1] \in {"+", "-"} /\ AllDigits(Tail(t)))

\* for i := 0; i < len(longer)-len(shorter); i++ { shorter = append(shorter, "0") }
\* the condition is evaluated again with the grown slice on every round
RECURSIVE padLoop(_, _, _)
padLoop(i, longer, shorter) ==
    IF i < Len(longer) - Len(shorter) THEN padLoop(i + 1, longer, Append(shorter, <<"0">>))
    ELSE shorter

\* the right side is padded first, then the left one to the grown right side
padBoth(leftRelease, leftRest, rightPadded, rightRest) ==
    <<padLoop(0, rightPadded, leftRelease) \o leftRest, rightPadded \o rightRest>>

\* rightRest := left[len(rightRelease):] takes the rest from left
padReleases(left, leftRelease, rightRelease) ==
    padBoth(leftRelease, Drop(left, Len(leftRelease)),
            padLoop(0, leftRelease, rightRelease), Drop(left, Len(rightRelease)))

padVersion(left, right) == padReleases(left, SelectSeq(left, isDigist), SelectSeq(right, isDigist))

(***************************************************************************)
(* specifier.go: the operator functions                                    *)
(***************************************************************************)
samePadded(padded) == padded[1] = padded[2]

\* the candidate's tokens are cut to the number of the operand's tokens, then both are padded
prefixEqual(splitSpec, splitProspective) ==
    samePadded(padVersion(splitSpec, IF Len(splitProspective) > Len(splitSpec)
                                     THEN Take(splitProspective, Len(splitSpec))
                                     ELSE splitProspective))

\* versionEqual as it would be if it always dropped the candidate's local label
versionEqualStripped(prospective, specVersion, allowLocalVersion) ==
    Equal(specVersion, MustParse(Public(prospective)))

\* versionEqual as it would be if it compared the canonical texts
versionEqualText(prospective, specVersion, allowLocalVersion) ==
    String(specVersion) = String(IF ~allowLocalVersion /\ specVersion.local = <<>>
                                 THEN MustParse(Public(prospective)) ELSE prospective)

\* the candidate loses its local label unless the operand has one or local versions are allowed
versionEqual(prospective, specVersion, allowLocalVersion) ==
    Equal(specVersion, IF ~allowLocalVersion /\ specVersion.local = <<>>
                       THEN MustParse(Public(prospective)) ELSE prospective)

specifierEqual(prospective, spec, allowLocalVersion) ==
    IF HasSuffix(spec, Wildcard)
    THEN prefixEqual(versionSplit(TrimSuffix(spec, Wildcard)),
                     versionSplit(String(MustParse(Public(prospective)))))
    ELSE versionEqual(prospective, MustParse(spec), allowLocalVersion)

specifierNotEqual(prospective, spec, allowLocalVersion) ==
    ~specifierEqual(prospective, spec, allowLocalVersion)

\* MustParse(a.BaseVersion()).Equal(MustParse(b.BaseVersion()))
sameBaseVersion(a, b) == Equal(MustParse(BaseVersion(a)), MustParse(BaseVersion(b)))

\* lessThan as it would be without the exclusion of the bound's pre-releases
lessThanPlain(p, s) == LessThan(p, s)

lessThan(p, s) ==
    IF ~LessThan(p, s) THEN FALSE
    ELSE IF ~IsPreRelease(s) /\ IsPreRelease(p) /\ sameBaseVersion(p, s) THEN FALSE
    ELSE TRUE

specifierLessThan(prospective, spec, allowLocalVersion) ==
    lessThan(IF ~allowLocalVersion /\ prospective.local # <<>>
             THEN MustParse(Public(prospective)) ELSE prospective,
             MustParse(spec))

\* greaterThan as it would be without the exclusions of post-releases and local versions
greaterThanPlain(prospective, s, allowLocalVersion) == GreaterThan(prospective, s)

greaterThan(prospective, s, allowLocalVersion) ==
    IF ~GreaterThan(prospective, s) THEN FALSE
    ELSE IF ~IsPostRelease(s) /\ IsPostRelease(prospective) /\ sameBaseVersion(prospective, s)
         THEN FALSE
    ELSE IF ~allowLocalVersion /\ prospective.local # <<>> /\ sameBaseVersion(prospective, s)
         THEN FALSE
    ELSE TRUE

specifierGreaterThan(prospective, spec, allowLocalVersion) ==
    greaterThan(prospective, MustParse(spec), allowLocalVersion)

\* strings.EqualFold
specifierArbitrary(prospective, spec, allowLocalVersion) ==
    ToLower(String(prospective)) = ToLower(spec)

specifierLessThanEqual(prospective, spec, allowLocalVersion) ==
    LessThanOrEqual(IF ~allowLocalVersion THEN MustParse(Public(prospective)) ELSE prospective,
                    MustParse(spec))

specifierGreaterThanEqual(prospective, spec, allowLocalVersion) ==
    GreaterThanOrEqual(IF ~allowLocalVersion THEN MustParse(Public(prospective)) ELSE prospective,
                       MustParse(spec))

\* the tokens of the public form of the operand up to the first post or dev token
RECURSIVE prefixElements(_)
prefixElements(tokens) ==
    IF tokens = <<>> THEN <<>>
    ELSE IF HasPrefix(tokens[1], <<"p", "o", "s", "t">>) \/ HasPrefix(tokens[1], <<"d", "e", "v">>)
         THEN <<>>
         ELSE <<tokens[1]>> \o prefixElements(Tail(tokens))

\* all elements but the last, joined, with ".*"
joinPrefix(elems) == Join(Take(elems, Len(elems) - 1), <<".">>) \o Wildcard

compatiblePrefix(spec) == joinPrefix(prefixElements(versionSplit(Public(MustParse(spec)))))

specifierCompatible(prospective, spec, allowLocalVersion) ==
    specifierGreaterThanEqual(prospective, spec, allowLocalVersion)
    /\ specifierEqual(prospective, compatiblePrefix(spec), allowLocalVersion)

\* the operator table; an operator is named by its text
OpEmpty == <<>>
OpEq1 == <<"=">>
OpEq == <<"=", "=">>
OpNe == <<"!", "=">>
OpGt == <<">">>
OpLt == <<"<">>
OpGe == <<">", "=">>
OpLe == <<"<", "=">>
OpCompat == <<"~", "=">>
OpArbitrary == <<"=", "=", "=">>

specifierOperators ==
    {OpEmpty, OpEq1, OpEq, OpNe, OpGt, OpLt, OpGe, OpLe, OpCompat, OpArbitrary}

applyOperator(operator, v, c, allowLocalVersion) ==
    CASE operator \in {OpEmpty, OpEq1, OpEq} -> specifierEqual(v, c, allowLocalVersion)
      [] operator = OpNe -> specifierNotEqual(v, c, allowLocalVersion)
      [] operator = OpGt -> specifierGreaterThan(v, c, allowLocalVersion)
      [] operator = OpLt -> specifierLessThan(v, c, allowLocalVersion)
      [] operator = OpGe -> specifierGreaterThanEqual(v, c, allowLocalVersion)
      [] operator = OpLe -> specifierLessThanEqual(v, c, allowLocalVersion)
      [] operator = OpCompat -> specifierCompatible(v, c, allowLocalVersion)
      [] operator = OpArbitrary -> specifierArbitrary(v, c, allowLocalVersion)

(***************************************************************************)
(* specifier.go: building a Specifiers value                               *)
(*                                                                         *)
(* A requirement is given as its '||'-separated groups, a group as its     *)
(* clauses, a clause as operator text and operand text.                    *)
(***************************************************************************)
DefaultConf == [includePreRelease |-> FALSE, allowLocalVersion |-> FALSE]

EmptySpecifiers == [specifiers |-> <<>>, conf |-> DefaultConf]

Clause(operator, version) == [operator |-> operator, version |-> version]

\* a lone "*" stands for >=0.0.0
StarGroup == <<Clause(OpEmpty, <<"*">>)>>

StarClauses == <<Clause(OpGe, <<"0", ".", "0", ".", "0">>)>>

\* the version pattern inside validConstraintRegexp: no (?i), no surrounding space
matchesVersionPattern(t) == Parse(t).ok /\ t = ToLower(t) /\ t = TrimSpace(t)

\* validConstraintRegexp on one group: every clause is operator, version, optional ".*"
validConstraint(clauses) ==
    \A k \in 1..Len(clauses) :
        /\ clauses[k].operator \in specifierOperators
        /\ matchesVersionPattern(TrimSuffix(clauses[k].version, Wildcard))

validateParsed(operator, hasWildcard, parsed, c) ==
    IF ~parsed.ok THEN "version parse error"
    ELSE IF operator \in {OpEmpty, OpEq1, OpEq, OpNe}
    THEN IF hasWildcard /\ (~isNull(parsed.v.dev) \/ parsed.v.local # <<>>)
         THEN "wild card with dev or local" ELSE "nil"
    ELSE IF operator = OpCompat
    THEN IF hasWildcard THEN "a wild card is not allowed"
         ELSE IF Len(parsed.v.release) < 2 THEN "at least two digits"
         ELSE IF parsed.v.local # <<>> /\ ~c.allowLocalVersion
              THEN "local versions cannot be specified"
         ELSE "nil"
    ELSE IF hasWildcard THEN "a wild card is not allowed"
         ELSE IF parsed.v.local # <<>> /\ ~c.allowLocalVersion
              THEN "local versions cannot be specified"
         ELSE "nil"

\* nil, or the error
validate(operator, version, c) ==
    validateParsed(operator, HasSuffix(version, Wildcard),
                   Parse(TrimSuffix(version, Wildcard)), c)

\* newSpecifier as it would be without the call of validate
newSpecifierUnchecked(clause, c) ==
    [err |-> FALSE,
     s |-> [version |-> clause.version, operator |-> clause.operator,
            allowLocalVersion |-> c.allowLocalVersion]]

newSpecifier(clause, c) ==
    IF clause.operator # OpArbitrary /\ validate(clause.operator, clause.version, c) # "nil"
    THEN [err |-> TRUE, s |-> Clause(<<>>, <<>>) @@ [allowLocalVersion |-> FALSE]]
    ELSE [err |-> FALSE,
          s |-> [version |-> clause.version, operator |-> clause.operator,
                 allowLocalVersion |-> c.allowLocalVersion]]

appendSpecifier(first, rest) ==
    IF first.err \/ rest.err THEN [err |-> TRUE, specs |-> <<>>]
    ELSE [err |-> FALSE, specs |-> <<first.s>> \o rest.specs]

\* the clauses of one group turned into specifiers, stopping at the first error
RECURSIVE newGroup(_, _)
newGroup(clauses, c) ==
    IF clauses = <<>> THEN [err |-> FALSE, specs |-> <<>>]
    ELSE appendSpecifier(newSpecifier(clauses[1], c), newGroup(Tail(clauses), c))

\* appendGroup as it would be if a bad group were left out and the others kept
appendGroupPartial(valid, first, rest) ==
    IF ~valid \/ first.err THEN rest
    ELSE IF rest.err THEN [err |-> TRUE, sss |-> <<>>]
    ELSE [err |-> FALSE, sss |-> <<first.specs>> \o rest.sss]

appendGroup(valid, first, rest) ==
    IF ~valid \/ first.err \/ rest.err THEN [err |-> TRUE, sss |-> <<>>]
    ELSE [err |-> FALSE, sss |-> <<first.specs>> \o rest.sss]

\* one group: "*" is rewritten, the text is matched against validConstraintRegexp, the
\* clauses are built
oneGroup(vv, c, rest) == appendGroup(validConstraint(vv) /\ vv # <<>>, newGroup(vv, c), rest)

RECURSIVE newGroups(_, _)
newGroups(groups, c) ==
    IF groups = <<>> THEN [err |-> FALSE, sss |-> <<>>]
    ELSE oneGroup(IF groups[1] = StarGroup THEN StarClauses ELSE groups[1], c,
                  newGroups(Tail(groups), c))

specifiersOf(built, c) ==
    IF built.err THEN [err |-> TRUE, ss |-> EmptySpecifiers]
    ELSE [err |-> FALSE, ss |-> [specifiers |-> built.sss, conf |-> c]]

NewSpecifiers(groups, c) == specifiersOf(newGroups(groups, c), c)

(***************************************************************************)
(* specifier.go: Check                                                     *)
(***************************************************************************)
check(s, v) == applyOperator(s.operator, v, s.version, s.allowLocalVersion)

\* andCheck as it would be if it returned after the first clause
andCheckFirstClause(v, specifiers) == specifiers = <<>> \/ check(specifiers[1], v)

RECURSIVE andCheck(_, _)
andCheck(v, specifiers) ==
    IF specifiers = <<>> THEN TRUE
    ELSE IF ~check(specifiers[1], v) THEN FALSE
    ELSE andCheck(v, Tail(specifiers))

RECURSIVE orCheck(_, _)
orCheck(v, groups) ==
    IF groups = <<>> THEN FALSE
    ELSE IF andCheck(v, groups[1]) THEN TRUE
    ELSE orCheck(v, Tail(groups))

Check(ss, v) ==
    orCheck(IF ss.conf.includePreRelease THEN [v EXCEPT !.preReleaseIncluded = TRUE] ELSE v,
            ss.specifiers)

(***************************************************************************)
(* specifier.go: where Check can panic                                     *)
(*                                                                         *)
(* MustParse panics when Parse returns an error, and a slice expression    *)
(* panics when its bound lies outside the slice.  Each operator below is   *)
(* true when the operator function of the same name would panic.           *)
(***************************************************************************)
mustParsePanics(t) == ~Parse(t).ok

\* rightRest := left[len(rightRelease):] needs len(rightRelease) <= len(left)
padVersionPanics(left, right) == Len(SelectSeq(right, isDigist)) > Len(left)

prefixEqualPanics(splitSpec, splitProspective) ==
    padVersionPanics(splitSpec, IF Len(splitProspective) > Len(splitSpec)
                                THEN Take(splitProspective, Len(splitSpec))
                                ELSE splitProspective)

specifierEqualPanics(prospective, spec, allowLocalVersion) ==
    IF HasSuffix(spec, Wildcard)
    THEN \/ mustParsePanics(Public(prospective))
         \/ prefixEqualPanics(versionSplit(TrimSuffix(spec, Wildcard)),
                              versionSplit(String(MustParse(Public(prospective)))))
    ELSE \/ mustParsePanics(spec)
         \/ /\ ~allowLocalVersion /\ MustParse(spec).local = <<>>
            /\ mustParsePanics(Public(prospective))

sameBaseVersionPanics(a, b) ==
    mustParsePanics(BaseVersion(a)) \/ mustParsePanics(BaseVersion(b))

lessThanPanics(p, s) ==
    LessThan(p, s) /\ ~IsPreRelease(s) /\ IsPreRelease(p) /\ sameBaseVersionPanics(p, s)

specifierLessThanPanics(prospective, spec, allowLocalVersion) ==
    \/ mustParsePanics(spec)
    \/ ~allowLocalVersion /\ prospective.local # <<>> /\ mustParsePanics(Public(prospective))
    \/ lessThanPanics(IF ~allowLocalVersion /\ prospective.local # <<>>
                      THEN MustParse(Public(prospective)) ELSE prospective,
                      MustParse(spec))

greaterThanPanics(prospective, s, allowLocalVersion) ==
    /\ GreaterThan(prospective, s)
    /\ \/ ~IsPostRelease(s) /\ IsPostRelease(prospective)
       \/ ~allowLocalVersion /\ prospective.local # <<>>
    /\ sameBaseVersionPanics(prospective, s)

specifierGreaterThanPanics(prospective, spec, allowLocalVersion) ==
    mustParsePanics(spec) \/ greaterThanPanics(prospective, MustParse(spec), allowLocalVersion)

\* specifierLessThanEqual and specifierGreaterThanEqual parse the same texts
specifierOrEqualPanics(prospective, spec, allowLocalVersion) ==
    \/ ~allowLocalVersion /\ mustParsePanics(Public(prospective))
    \/ mustParsePanics(spec)

\* prefixElements[:len(prefixElements)-1] needs a token; the second operand of &&
\* runs only when the first one is true
specifierCompatiblePanics(prospective, spec, allowLocalVersion) ==
    \/ mustParsePanics(spec)
    \/ prefixElements(versionSplit(Public(MustParse(spec)))) = <<>>
    \/ specifierOrEqualPanics(prospective, spec, allowLocalVersion)
    \/ /\ specifierGreaterThanEqual(prospective, spec, allowLocalVersion)
       /\ specifierEqualPanics(prospective, compatiblePrefix(spec), allowLocalVersion)

applyOperatorPanics(operator, v, c, allowLocalVersion) ==
    CASE operator \in {OpEmpty, OpEq1, OpEq, OpNe} -> specifierEqualPanics(v, c, allowLocalVersion)
      [] operator = OpGt -> specifierGreaterThanPanics(v, c, allowLocalVersion)
      [] operator = OpLt -> specifierLessThanPanics(v, c, allowLocalVersion)
      [] operator \in {OpGe, OpLe} -> specifierOrEqualPanics(v, c, allowLocalVersion)
      [] operator = OpCompat -> specifierCompatiblePanics(v, c, allowLocalVersion)
      [] operator = OpArbitrary -> FALSE

checkPanics(s, v) == applyOperatorPanics(s.operator, v, s.version, s.allowLocalVersion)

\* a clause is reached only when the clauses before it hold
RECURSIVE andCheckPanics(_, _)
andCheckPanics(v, specifiers) ==
    IF specifiers = <<>> THEN FALSE
    ELSE IF checkPanics(specifiers[1], v) THEN TRUE
    ELSE IF ~check(specifiers[1], v) THEN FALSE
    ELSE andCheckPanics(v, Tail(specifiers))

\* a group is reached only when the groups before it fail
RECURSIVE orCheckPanics(_, _)
orCheckPanics(v, groups) ==
    IF groups = <<>> THEN FALSE
    ELSE IF andCheckPanics(v, groups[1]) THEN TRUE
    ELSE IF andCheck(v, groups[1]) THEN FALSE
    ELSE orCheckPanics(v, Tail(groups))

CheckPanics(ss, v) ==
    orCheckPanics(IF ss.conf.includePreRelease THEN [v EXCEPT !.preReleaseIncluded = TRUE] ELSE v,
                  ss.specifiers)

(***************************************************************************)
(* The inputs of the model                                                 *)
(***************************************************************************)
\* the largest minor number of the generated versions 2.0, 2.1, ..
MaxMinor == 1

\* the largest number of '||' groups of a generated requirement
MaxGroups == 2

MinorTexts == {<<"2", ".">> \o Itoa(n) : n \in 0..MaxMinor}

\* candidate versions: canonical ones, other spellings, and malformed ones
CandidateSpellings ==
    { <<"1">>,                                                  \* 1
      <<"3">>,                                                  \* 3
      <<"2",".","0",".","0">>,                                  \* 2.0.0
      <<"1",".","5">>,                                          \* 1.5
      <<"0",".","9">>,                                          \* 0.9
      <<"2",".","0","a","1">>,                                  \* 2.0a1
      <<"2",".","0","r","c","1">>,                              \* 2.0rc1
      <<"2",".","0",".","d","e","v","1">>,                      \* 2.0.dev1
      <<"2",".","0","a","1",".","d","e","v","1">>,              \* 2.0a1.dev1
      <<"2",".","1","a","1">>,                                  \* 2.1a1
      <<"2",".","1",".","d","e","v","0">>,                      \* 2.1.dev0
      <<"2",".","0",".","d","e","v","0">>,                      \* 2.0.dev0
      <<"2",".","0",".","p","o","s","t","1">>,                  \* 2.0.post1
      <<"2",".","0",".","p","o","s","t","1",".","d","e","v","1">>, \* 2.0.post1.dev1
      <<"2",".","1",".","p","o","s","t","1">>,                  \* 2.1.post1
      <<"2",".","0","a","1",".","p","o","s","t","1">>,          \* 2.0a1.post1
      <<"2",".","0","+","a","b","c">>,                          \* 2.0+abc
      <<"2",".","1","+","a","b","c">>,                          \* 2.1+abc
      <<"2",".","0","a","1","+","a","b","c">>,                  \* 2.0a1+abc
      <<"2",".","0",".","p","o","s","t","1","+","a","b","c">>,  \* 2.0.post1+abc
      <<"2",".","0","+","1">>,                                  \* 2.0+1
      <<"2","+","a","b","c",".","1">>,                          \* 2+abc.1
      <<"1","!","2",".","0">>,                                  \* 1!2.0
      <<"1","!","1",".","0">>,                                  \* 1!1.0
      <<"2","!","1",".","0">>,                                  \* 2!1.0
      <<"1","!","2",".","0","a","1">>,                          \* 1!2.0a1
      <<"2","!","3",".","5">>,                                  \* 2!3.5
      <<"1","!","2">>,                                          \* 1!2
      <<"v","2",".","0">>,                                      \* v2.0
      <<" ","2",".","0","\t">>,                                 \*  2.0\t
      <<"2",".","0","-","1">>,                                  \* 2.0-1
      <<"2",".","0","A","L","P","H","A","1">>,                  \* 2.0ALPHA1
      <<"0","2",".","0","0">>,                                  \* 02.00
      <<"2",".","0","+","A","B","C">>,                          \* 2.0+ABC
      <<"2",".","0","+","a","-","b">>,                          \* 2.0+a-b
      <<"2",".","0",".","R","e","v","1">>,                      \* 2.0.Rev1
      <<"2",".","d","e","v">> }                                 \* 2.dev

MalformedTexts ==
    { <<"f","r","e","n","c","h"," ","t","o","a","s","t">>,      \* french toast
      <<"2",".","0","+">>,                                      \* 2.0+
      <<>>,                                                     \* (empty)
      <<"2",".","0",".","*">>,                                  \* 2.0.*
      <<"2",".","0","+","a","+">>,                              \* 2.0+a+
      <<"1",".","0","a","1","b","2">> }                         \* 1.0a1b2

CandidateTexts == MinorTexts \cup CandidateSpellings \cup MalformedTexts

\* operands of single clauses
OperandSpellings ==
    { <<"2">>,                                                  \* 2
      <<"2",".","0",".","0">>,                                  \* 2.0.0
      <<"1",".","0">>,                                          \* 1.0
      <<"2",".","0","a","1">>,                                  \* 2.0a1
      <<"2",".","0",".","d","e","v","1">>,                      \* 2.0.dev1
      <<"2",".","0",".","p","o","s","t","1">>,                  \* 2.0.post1
      <<"2",".","0","+","a","b","c">>,                          \* 2.0+abc
      <<"1","!","2",".","0">>,                                  \* 1!2.0
      <<"2","!","1",".","0">>,                                  \* 2!1.0
      <<"2",".","0","r","c","1">>,                              \* 2.0rc1
      <<"2",".","0",".","0",".","0">>,                          \* 2.0.0.0
      <<"2",".","0","0">>,                                      \* 2.00
      <<"2",".","0","A","1">>,                                  \* 2.0A1
      <<"l","o","l","w","a","t">> }                             \* lolwat

WildcardOperands ==
    { <<"2",".","*">>,                                          \* 2.*
      <<"2",".","0",".","*">>,                                  \* 2.0.*
      <<"2",".","1",".","*">>,                                  \* 2.1.*
      <<"2",".","0",".","0",".","*">>,                          \* 2.0.0.*
      <<"2",".","0","a","1",".","*">>,                          \* 2.0a1.*
      <<"2",".","0",".","p","o","s","t","1",".","*">>,          \* 2.0.post1.*
      <<"1","!","2",".","*">>,                                  \* 1!2.*
      <<"2","!","1",".","*">>,                                  \* 2!1.*
      <<"2",".","0",".","d","e","v","1",".","*">>,              \* 2.0.dev1.*
      <<"2",".","0","+","a","b","c",".","*">>,                  \* 2.0+abc.*
      <<"2",".","*",".","0">> }                                 \* 2.*.0

OperandTexts == MinorTexts \cup OperandSpellings

Confs == [includePreRelease : BOOLEAN, allowLocalVersion : BOOLEAN]

\* operands of '===' clauses
ArbitraryOperands ==
    { <<"2", ".", "0">>,                                        \* 2.0
      <<"2", ".", "0", ".", "0">>,                              \* 2.0.0
      <<"2", ".", "0", "a", "1">>,                              \* 2.0a1
      <<"2", ".", "0", "A", "1">>,                              \* 2.0A1
      <<"l", "o", "l", "w", "a", "t">> }                        \* lolwat

\* requirements of one clause: every operator on every operand, and the wildcard forms
SingleRequirements ==
    {<< <<Clause(op, t)>> >> : op \in specifierOperators \ {OpArbitrary}, t \in OperandTexts}
    \cup {<< <<Clause(op, t)>> >> : op \in {OpEq, OpNe, OpGe, OpCompat}, t \in WildcardOperands}
    \cup {<< <<Clause(OpArbitrary, t)>> >> : t \in ArbitraryOperands}

\* groups for the requirements of several clauses and groups
GroupPool ==
    { <<Clause(OpGe, <<"1", ".", "0">>), Clause(OpLt, <<"2", ".", "0">>)>>,   \* >=1.0,<2.0
      <<Clause(OpCompat, <<"0", ".", "9">>), Clause(OpGe, <<"1", ".", "0">>)>>, \* ~=0.9,>=1.0
      <<Clause(OpGe, <<"1", ".", "0">>), Clause(OpNe, <<"2", ".", "*">>), Clause(OpLt, <<"3">>)>>,
      <<Clause(OpEq, <<"2", ".", "0">>)>>,                                    \* ==2.0
      <<Clause(OpGt, <<"2", ".", "0">>)>>,                                    \* >2.0
      <<Clause(OpLt, <<"2">>), Clause(OpEq, <<"w", "a", "t">>)>>,             \* malformed
      StarGroup,
      <<>> }

RECURSIVE SeqsUpTo(_, _)
SeqsUpTo(S, n) ==
    IF n = 0 THEN {<<>>}
    ELSE SeqsUpTo(S, n - 1) \cup {Append(q, x) : q \in {r \in SeqsUpTo(S, n - 1) : Len(r) = n - 1}, x \in S}

CompositeRequirements == SeqsUpTo(GroupPool, MaxGroups) \ {<<>>}

\* the calls of NewSpecifiers the model makes
Calls ==
    (SingleRequirements \X Confs) \cup (CompositeRequirements \X {DefaultConf})

(***************************************************************************)
(* A session: NewSpecifiers, Parse and Check                               *)
(***************************************************************************)
NotParsed == [done |-> FALSE, ok |-> FALSE, v |-> ZeroVersion]

\* request holds the arguments of the call
NotBuilt ==
    [done |-> FALSE, request |-> [groups |-> <<>>, conf |-> DefaultConf],
     err |-> FALSE, ss |-> EmptySpecifiers]

\* panicked says that Check did not return
NoResult == [done |-> FALSE, value |-> FALSE, panicked |-> FALSE]

\* what the comparison methods of x return for y
Relations(x, y) ==
    [compare |-> Compare(x, y), lt |-> LessThan(x, y), le |-> LessThanOrEqual(x, y),
     eq |-> Equal(x, y), ge |-> GreaterThanOrEqual(x, y), gt |-> GreaterThan(x, y)]

NoOrder ==
    [done |-> FALSE, a |-> ZeroVersion, b |-> ZeroVersion, c |-> ZeroVersion,
     ab |-> Relations(ZeroVersion, ZeroVersion), bc |-> Relations(ZeroVersion, ZeroVersion),
     ac |-> Relations(ZeroVersion, ZeroVersion)]

\* nothing parsed or formatted yet
NoRoundTrip ==
    [stage |-> 0, parsed |-> ParseError, text |-> <<>>, reparsed |-> ParseError, retext |-> <<>>]

Init ==
    /\ input = <<>>
    /\ candidate = NotParsed
    /\ constraints = NotBuilt
    /\ result = NoResult
    /\ operands = <<>>
    /\ order = NoOrder
    /\ roundtrip = NoRoundTrip

\* a session builds its Specifiers value once and checks one candidate against it
DoParse(text) ==
    /\ constraints.done /\ ~candidate.done
    /\ input' = text
    /\ candidate' = [done |-> TRUE] @@ Parse(text)
    /\ result' = NoResult
    /\ UNCHANGED <<constraints, operands, order, roundtrip>>

DoNewSpecifiers(groups, c) ==
    /\ ~constraints.done
    /\ constraints' = [done |-> TRUE, request |-> [groups |-> groups, conf |-> c]]
                       @@ NewSpecifiers(groups, c)
    /\ result' = NoResult
    /\ UNCHANGED <<input, candidate, operands, order, roundtrip>>

DoCheck ==
    /\ candidate.done /\ candidate.ok
    /\ constraints.done /\ ~constraints.err
    /\ ~result.done
    /\ result' = [done |-> TRUE, value |-> Check(constraints.ss, candidate.v),
                  panicked |-> CheckPanics(constraints.ss, candidate.v)]
    /\ UNCHANGED <<input, candidate, constraints, operands, order, roundtrip>>

Next ==
    \/ \E text \in CandidateTexts : DoParse(text)
    \/ \E call \in Calls : DoNewSpecifiers(call[1], call[2])
    \/ DoCheck

Spec == Init /\ [][Next]_vars

(***************************************************************************)
(* Comparing three versions: Parse, then the comparison methods            *)
(***************************************************************************)
CompareSpellings ==
    { <<"1",".","0",".","d","e","v","1">>,                      \* 1.0.dev1
      <<"1",".","0","a","1">>,                                  \* 1.0a1
      <<"1",".","0","b","1">>,                                  \* 1.0b1
      <<"1",".","0","r","c","1">>,                              \* 1.0rc1
      <<"1",".","0",".","p","o","s","t","1">>,                  \* 1.0.post1
      <<"1",".","0","a","1",".","d","e","v","1">>,              \* 1.0a1.dev1
      <<"1",".","0",".","p","o","s","t","1",".","d","e","v","1">>, \* 1.0.post1.dev1
      <<"1",".","0","a","1",".","p","o","s","t","1">>,          \* 1.0a1.post1
      <<"1">>,                                                  \* 1
      <<"1",".","0",".","0">>,                                  \* 1.0.0
      <<"2",".","1">>,                                          \* 2.1
      <<"2","+","a","b","c">>,                                  \* 2+abc
      <<"2",".","0",".","p","o","s","t","1">>,                  \* 2.0.post1
      <<"1",".","0","+","a","b","c">>,                          \* 1.0+abc
      <<"1",".","0","+","A","B","D">>,                          \* 1.0+ABD
      <<"1",".","0","+","9">>,                                  \* 1.0+9
      <<"1",".","0","+","1","0">>,                              \* 1.0+10
      <<"1",".","0","+","a","b","c",".","1">>,                  \* 1.0+abc.1
      <<"1",".","0","+","1",".","a","b","c">>,                  \* 1.0+1.abc
      <<"1","!","0",".","9">>,                                  \* 1!0.9
      <<"1","!","1",".","0","a","1">> }                         \* 1!1.0a1

CompareTexts == CompareSpellings \cup {<<"1", ".">> \o Itoa(n) : n \in 0..MaxMinor}

InitCompare ==
    /\ input = <<>>
    /\ candidate = NotParsed
    /\ constraints = NotBuilt
    /\ result = NoResult
    /\ operands \in CompareTexts \X CompareTexts \X CompareTexts
    /\ order = NoOrder
    /\ roundtrip = NoRoundTrip

\* the three parsed operands compared pairwise
Ordered(a, b, c) ==
    [done |-> TRUE, a |-> a, b |-> b, c |-> c,
     ab |-> Relations(a, b), bc |-> Relations(b, c), ac |-> Relations(a, c)]

DoCompare ==
    /\ ~order.done
    /\ order' = Ordered(MustParse(operands[1]), MustParse(operands[2]), MustParse(operands[3]))
    /\ UNCHANGED <<input, candidate, constraints, result, operands, roundtrip>>

NextCompare == DoCompare

SpecCompare == InitCompare /\ [][NextCompare]_vars

(***************************************************************************)
(* The round trip of a text: Parse, String, Parse, String                  *)
(***************************************************************************)
RoundTripTexts == CandidateTexts \cup CompareTexts

InitRoundTrip ==
    /\ input \in RoundTripTexts
    /\ candidate = NotParsed
    /\ constraints = NotBuilt
    /\ result = NoResult
    /\ operands = <<>>
    /\ order = NoOrder
    /\ roundtrip = NoRoundTrip

RoundTripParse ==
    /\ roundtrip.stage = 0
    /\ roundtrip' = [roundtrip EXCEPT !.stage = 1, !.parsed = Parse(input)]
    /\ UNCHANGED <<input, candidate, constraints, result, operands, order>>

RoundTripString ==
    /\ roundtrip.stage = 1 /\ roundtrip.parsed.ok
    /\ roundtrip' = [roundtrip EXCEPT !.stage = 2, !.text = String(roundtrip.parsed.v)]
    /\ UNCHANGED <<input, candidate, constraints, result, operands, order>>

RoundTripReparse ==
    /\ roundtrip.stage = 2
    /\ roundtrip' = [roundtrip EXCEPT !.stage = 3, !.reparsed = Parse(roundtrip.text)]
    /\ UNCHANGED <<input, candidate, constraints, result, operands, order>>

RoundTripRestring ==
    /\ roundtrip.stage = 3 /\ roundtrip.reparsed.ok
    /\ roundtrip' = [roundtrip EXCEPT !.stage = 4, !.retext = String(roundtrip.reparsed.v)]
    /\ UNCHANGED <<input, candidate, constraints, result, operands, order>>

NextRoundTrip ==
    \/ RoundTripParse
    \/ RoundTripString
    \/ RoundTripReparse
    \/ RoundTripRestring

SpecRoundTrip == InitRoundTrip /\ [][NextRoundTrip]_vars

(***************************************************************************)
(* Properties of Check                                                     *)
(***************************************************************************)
Checked == result.done

Groups == constraints.ss.specifiers

Conf == constraints.ss.conf

\* the candidate as Check hands it to the operators
Flagged == IF Conf.includePreRelease THEN [candidate.v EXCEPT !.preReleaseIncluded = TRUE] ELSE candidate.v

ClauseHolds(s) == check(s, Flagged)

GroupHolds(g) == \A k \in 1..Len(g) : ClauseHolds(g[k])

\* C1: Check returns true if and only if at least one '||' group has every one of
\* its clauses satisfied by the candidate (OR of ANDs).
C1_OrOfAnds == Checked => (result.value <=> \E i \in 1..Len(Groups) : GroupHolds(Groups[i]))

\* C1 witness: Check returned true, the first group has a satisfied and a failing
\* clause, and a later group is satisfied.
C1_LaterGroupDecides ==
    /\ Checked /\ result.value
    /\ Len(Groups) >= 2
    /\ \E k \in 1..Len(Groups[1]) : ClauseHolds(Groups[1][k])
    /\ \E k \in 1..Len(Groups[1]) : ~ClauseHolds(Groups[1][k])
    /\ \E i \in 2..Len(Groups) : GroupHolds(Groups[i])

(***************************************************************************)
(* Properties of the comparator                                            *)
(***************************************************************************)
ExactlyOne(p, q, r) == (p /\ ~q /\ ~r) \/ (~p /\ q /\ ~r) \/ (~p /\ ~q /\ r)

TotalOn(rel) ==
    /\ ExactlyOne(rel.lt, rel.eq, rel.gt)
    /\ rel.le = ~rel.gt
    /\ rel.ge = ~rel.lt

\* C2: the comparator is a total order: exactly one of LessThan, Equal, GreaterThan
\* holds of two versions, LessThan is transitive, and LessThanOrEqual and
\* GreaterThanOrEqual are the negations of GreaterThan and LessThan.
C2_TotalOrder ==
    order.done =>
        /\ TotalOn(order.ab) /\ TotalOn(order.bc) /\ TotalOn(order.ac)
        /\ (order.ab.lt /\ order.bc.lt) => order.ac.lt

\* C2 witness: a chain a < b < c where a and c have different release segments and
\* b differs from both only in later segments or in padding
C2_Chain ==
    /\ order.done /\ order.ab.lt /\ order.bc.lt /\ order.ac.lt
    /\ Len(order.b.release) < Len(order.a.release)
    /\ Len(order.b.release) < Len(order.c.release)
    /\ order.a.release # order.c.release

\* the shapes X.devN, XaN, XbN, XrcN, X, X.postN, in the order of the claim
Shape(v) ==
    IF v.local # <<>> THEN 0
    ELSE IF isNull(v.pre) /\ isNull(v.post) /\ ~isNull(v.dev) THEN 1
    ELSE IF ~isNull(v.pre) /\ isNull(v.post) /\ isNull(v.dev)
         THEN (CASE v.pre.letter = "a" -> 2 [] v.pre.letter = "b" -> 3 [] OTHER -> 4)
    ELSE IF isNull(v.pre) /\ isNull(v.post) /\ isNull(v.dev) THEN 5
    ELSE IF isNull(v.pre) /\ ~isNull(v.post) /\ isNull(v.dev) THEN 6
    ELSE 0

ReleaseBelow(r1, r2) ==
    \E i \in 1..MinOf(Len(r1), Len(r2)) : r1[i] < r2[i] /\ \A j \in 1..(i - 1) : r1[j] = r2[j]

EpochOutranks(x, y, rel) == x.epoch > y.epoch => rel.gt

PhaseOrder(x, y, rel) ==
    (x.epoch = y.epoch /\ x.release = y.release /\ Shape(x) # 0 /\ Shape(y) # 0 /\ Shape(x) < Shape(y))
        => rel.lt

DevFirst(x, y, rel) ==
    (/\ x.epoch = y.epoch /\ x.release = y.release /\ x.pre = y.pre /\ x.post = y.post
     /\ x.local = y.local /\ ~isNull(x.dev) /\ isNull(y.dev))
        => rel.lt

\* C3: a higher epoch compares greater whatever the release; with epoch and release
\* fixed, X.devN < XaN < XbN < XrcN < X < X.postN; and a version with a dev segment
\* is below the same version without it.
C3_EpochAndPhases ==
    order.done =>
        /\ EpochOutranks(order.a, order.b, order.ab) /\ EpochOutranks(order.b, order.c, order.bc)
        /\ PhaseOrder(order.a, order.b, order.ab) /\ PhaseOrder(order.b, order.c, order.bc)
        /\ PhaseOrder(order.a, order.c, order.ac)
        /\ DevFirst(order.a, order.b, order.ab) /\ DevFirst(order.b, order.c, order.bc)

\* C3 witness: a has the higher epoch and the lower release, b is X.devN, c is XaN
C3_EpochBeatsRelease ==
    /\ order.done
    /\ order.a.epoch > order.b.epoch /\ ReleaseBelow(order.a.release, order.b.release)
    /\ order.ab.gt
    /\ order.b.release = order.c.release /\ order.b.epoch = order.c.epoch
    /\ Shape(order.b) = 1 /\ Shape(order.c) = 2 /\ order.bc.lt

\* the segments of a local label
Segments(l) == Split(l, ".")

Numeric(seg) == seg # <<>> /\ \A i \in 1..Len(seg) : seg[i] \in Range(Digits)

\* x is below y as strings: at the first position where they differ x has the
\* smaller character, or x is a strict prefix of y
TextBelow(x, y) ==
    \/ Len(x) < Len(y) /\ Take(y, Len(x)) = x
    \/ \E i \in 1..MinOf(Len(x), Len(y)) :
           /\ \A j \in 1..(i - 1) : x[j] = y[j]
           /\ CharRank(x[i]) < CharRank(y[i])

SegmentBelow(x, y) ==
    IF Numeric(x) /\ Numeric(y) THEN Atoi(x) < Atoi(y)
    ELSE IF Numeric(x) THEN FALSE
    ELSE IF Numeric(y) THEN TRUE
    ELSE TextBelow(ToLower(x), ToLower(y))

SegmentSame(x, y) == ~SegmentBelow(x, y) /\ ~SegmentBelow(y, x)

LocalBelow(x, y) ==
    \/ Len(x) < Len(y) /\ \A j \in 1..Len(x) : SegmentSame(x[j], y[j])
    \/ \E i \in 1..MinOf(Len(x), Len(y)) :
           /\ \A j \in 1..(i - 1) : SegmentSame(x[j], y[j])
           /\ SegmentBelow(x[i], y[i])

SameButLocal(x, y) ==
    /\ x.epoch = y.epoch /\ CompareRelease(x.release, y.release) = 0
    /\ x.pre = y.pre /\ x.post = y.post /\ x.dev = y.dev

LocalOrder(x, y, rel) ==
    SameButLocal(x, y) =>
        /\ (x.local = <<>> /\ y.local # <<>>) => rel.lt
        /\ (x.local # <<>> /\ y.local # <<>>) =>
               (rel.lt <=> LocalBelow(Segments(x.local), Segments(y.local)))

\* C5: with the other segments equal, no local segment is below any local segment;
\* two local segments compare position by position, numbers as integers, a number
\* above a word, words as lower-cased strings, a strict prefix below the longer one.
C5_LocalOrder ==
    order.done =>
        /\ LocalOrder(order.a, order.b, order.ab)
        /\ LocalOrder(order.b, order.c, order.bc)
        /\ LocalOrder(order.a, order.c, order.ac)

\* C5 witness: a without local segment, b with a word, c with a number at the
\* same position, and a < b < c
C5_WordBelowNumber ==
    /\ order.done /\ SameButLocal(order.a, order.b) /\ SameButLocal(order.b, order.c)
    /\ order.a.local = <<>> /\ order.b.local # <<>> /\ order.c.local # <<>>
    /\ ~Numeric(Segments(order.b.local)[1]) /\ Numeric(Segments(order.c.local)[1])
    /\ order.ab.lt /\ order.bc.lt

(***************************************************************************)
(* Properties of single clauses                                            *)
(***************************************************************************)
TheClause == Groups[1][1]

\* Check has run on a requirement of one clause with this operator
SingleClause(operator) ==
    /\ Checked /\ Len(Groups) = 1 /\ Len(Groups[1]) = 1
    /\ TheClause.operator = operator

IsWildcard == HasSuffix(TheClause.version, Wildcard)

\* the clause's operand as a version
Operand == MustParse(TheClause.version)

RECURSIVE StripZeros(_)
StripZeros(r) ==
    IF r # <<>> /\ r[Len(r)] = 0 THEN StripZeros(SubSeq(r, 1, Len(r) - 1)) ELSE r

\* the same epoch and the same release up to trailing zeros
SameBase(x, y) == x.epoch = y.epoch /\ StripZeros(x.release) = StripZeros(y.release)

OnlyTrailingZerosDiffer(x, y) ==
    /\ SameBase(x, y)
    /\ x.pre = y.pre /\ x.post = y.post /\ x.dev = y.dev /\ x.local = y.local

\* C4: two versions that differ only in trailing zero release components compare
\* Equal, and an '==' clause on one of them accepts the other ('==2' accepts 2.0.0).
C4_TrailingZeros ==
    (SingleClause(OpEq) /\ ~IsWildcard /\ OnlyTrailingZerosDiffer(candidate.v, Operand)) =>
        /\ Equal(candidate.v, Operand) /\ Equal(Operand, candidate.v)
        /\ Compare(candidate.v, Operand) = 0
        /\ result.value

\* C4 witness: '==2' has accepted 2.0.0, whose release is longer than the operand's.
C4_TwoAcceptsTwoZeroZero ==
    /\ SingleClause(OpEq) /\ TheClause.version = <<"2">>
    /\ input = <<"2", ".", "0", ".", "0">>
    /\ Len(candidate.v.release) = 3 /\ Len(Operand.release) = 1
    /\ result.value

\* a pre-release in the sense of the '<' rule: a pre tag or a dev tag
PreOrDev(x) == ~isNull(x.pre) \/ ~isNull(x.dev)

\* C7: with default options '<X' accepts v if and only if v is strictly less than X
\* and it is not the case that X is no pre-release while v is a pre-release or dev
\* release with X's base version.
C7_LessThanExcludesPreOfBound ==
    (SingleClause(OpLt) /\ Conf = DefaultConf) =>
        (result.value <=>
            /\ LessThan(candidate.v, Operand)
            /\ ~(~PreOrDev(Operand) /\ PreOrDev(candidate.v) /\ SameBase(candidate.v, Operand)))

\* C7 witness: '<2.1' has rejected 2.1.dev0, which is less than 2.1.
C7_DevOfBoundRejected ==
    /\ SingleClause(OpLt) /\ Conf = DefaultConf
    /\ TheClause.version = <<"2", ".", "1">>
    /\ input = <<"2", ".", "1", ".", "d", "e", "v", "0">>
    /\ LessThan(candidate.v, Operand)
    /\ ~result.value

RECURSIVE NumericPrefix(_)
NumericPrefix(tokens) ==
    IF tokens # <<>> /\ AllDigits(tokens[1]) THEN <<tokens[1]>> \o NumericPrefix(Tail(tokens))
    ELSE <<>>

\* the numeric prefix made n long with zeros, then the other tokens
PaddedTokens(tokens, n) ==
    NumericPrefix(tokens)
    \o [k \in 1..(n - Len(NumericPrefix(tokens))) |-> <<"0">>]
    \o Drop(tokens, Len(NumericPrefix(tokens)))

PrefixMatches(prefix, tokens) ==
    PaddedTokens(prefix, MaxOf(Len(NumericPrefix(prefix)), Len(NumericPrefix(tokens))))
    = PaddedTokens(tokens, MaxOf(Len(NumericPrefix(prefix)), Len(NumericPrefix(tokens))))

\* the candidate's public tokens cut to the length of the prefix
CutTo(prefix, tokens) == IF Len(tokens) > Len(prefix) THEN Take(tokens, Len(prefix)) ELSE tokens

CandidateTokens == versionSplit(Public(candidate.v))

MatchesPrefix(prefix) == PrefixMatches(prefix, CutTo(prefix, CandidateTokens))

\* C9: '==P.*' matches if and only if P's tokens equal the candidate's public tokens
\* cut to P's length, after zero-padding the numeric release prefix of the shorter
\* side; a candidate with another epoch than P's does not match.
C9_WildcardIsPrefixMatch ==
    (SingleClause(OpEq) /\ IsWildcard) =>
        /\ result.value <=> MatchesPrefix(versionSplit(TrimSuffix(TheClause.version, Wildcard)))
        /\ result.value => candidate.v.epoch = MustParse(TrimSuffix(TheClause.version, Wildcard)).epoch

\* the release r with its last component dropped and the new last one raised by one
NextSeries(r) == [k \in 1..(Len(r) - 1) |-> IF k = Len(r) - 1 THEN r[k] + 1 ELSE r[k]]

\* C10: '~=V' accepts v exactly when v satisfies '>=V' and '==P.*', P being V's
\* public tokens before any post or dev token without the last one; an accepted
\* candidate has V's epoch and lies below the next value of V's second-to-last
\* release component.
C10_CompatibleRelease ==
    SingleClause(OpCompat) =>
        /\ result.value <=>
              /\ specifierGreaterThanEqual(Flagged, TheClause.version, Conf.allowLocalVersion)
              /\ MatchesPrefix(versionSplit(TrimSuffix(compatiblePrefix(TheClause.version), Wildcard)))
        /\ result.value =>
              /\ candidate.v.epoch = Operand.epoch
              /\ CompareRelease(candidate.v.release, NextSeries(Operand.release)) < 0

(***************************************************************************)
(* Properties of the round trip                                            *)
(*                                                                         *)
(* The canonical form is recognised from the text alone:                   *)
(*   [N!]N(.N)*[(a|b|rc)N][.postN][.devN][+segment(.segment)*]             *)
(* with numbers without leading zeros and lower-case segments.  A position *)
(* of 0 says that the text is not canonical.                               *)
(***************************************************************************)
CanonNumberEnd(t, i) ==
    IF i = 0 \/ DigitsEnd(t, i) = i THEN 0
    ELSE IF t[i] = "0" /\ DigitsEnd(t, i) > i + 1 THEN 0
    ELSE DigitsEnd(t, i)

CanonEpochEnd(t) ==
    IF CanonNumberEnd(t, 1) > 0 /\ CanonNumberEnd(t, 1) <= Len(t) /\ t[CanonNumberEnd(t, 1)] = "!"
    THEN CanonNumberEnd(t, 1) + 1
    ELSE 1

RECURSIVE CanonReleaseEnd(_, _)
CanonReleaseEnd(t, i) ==
    IF CanonNumberEnd(t, i) = 0 THEN 0
    ELSE IF CanonNumberEnd(t, i) < Len(t) /\ t[CanonNumberEnd(t, i)] = "."
            /\ IsDigit(t[CanonNumberEnd(t, i) + 1])
         THEN CanonReleaseEnd(t, CanonNumberEnd(t, i) + 1)
         ELSE CanonNumberEnd(t, i)

\* the position after the tag word and its number, i itself when the word is not there
CanonTagEnd(t, i, word) ==
    IF i = 0 THEN 0
    ELSE IF HasWordAt(t, i, word) THEN CanonNumberEnd(t, i + Len(word))
    ELSE i

CanonPreEnd(t, i) ==
    IF i = 0 THEN 0
    ELSE IF HasWordAt(t, i, <<"r", "c">>) THEN CanonTagEnd(t, i, <<"r", "c">>)
    ELSE IF HasWordAt(t, i, <<"a">>) THEN CanonTagEnd(t, i, <<"a">>)
    ELSE CanonTagEnd(t, i, <<"b">>)

CanonSegment(seg) ==
    /\ seg # <<>>
    /\ \A k \in 1..Len(seg) : IsDigit(seg[k]) \/ seg[k] \in Range(LowerLetters)
    /\ AllDigits(seg) => CanonNumberEnd(seg, 1) = Len(seg) + 1

CanonLocal(t, i) ==
    /\ i # 0
    /\ \/ i = Len(t) + 1
       \/ /\ i <= Len(t) /\ t[i] = "+"
          /\ \A seg \in Range(Split(Drop(t, i), ".")) : CanonSegment(seg)

IsCanonical(t) ==
    CanonLocal(t, CanonTagEnd(t, CanonTagEnd(t, CanonPreEnd(t, CanonReleaseEnd(t, CanonEpochEnd(t))),
                                             <<".", "p", "o", "s", "t">>),
                              <<".", "d", "e", "v">>))

\* C6: for a text that Parse accepts, String of the parsed version is accepted by
\* Parse, parses to a version Equal to the first one and is a fixed point of Parse
\* followed by String; a text in canonical form comes back unchanged.
C6_RoundTrip ==
    /\ roundtrip.stage >= 3 =>
          /\ roundtrip.reparsed.ok
          /\ Equal(roundtrip.reparsed.v, roundtrip.parsed.v)
    /\ roundtrip.stage = 4 => roundtrip.retext = roundtrip.text
    /\ (roundtrip.stage >= 2 /\ IsCanonical(input)) => roundtrip.text = input

\* C6 witness: a text that is not canonical has been normalised to a canonical text
\* that differs from it, and the second round has returned the same text.
C6_Normalised ==
    /\ roundtrip.stage = 4
    /\ ~IsCanonical(input) /\ roundtrip.text # input
    /\ IsCanonical(roundtrip.text)
    /\ roundtrip.retext = roundtrip.text

(***************************************************************************)
(* Properties of local version labels                                      *)
(***************************************************************************)
\* C11: a non-wildcard '==X' clause accepts the candidate if and only if the two
\* are the same apart from the local label and, unless options are default and X
\* has no local label, the candidate's local label equals X's.
C11_EqualAndLocal ==
    (SingleClause(OpEq) /\ ~IsWildcard) =>
        (result.value <=>
            /\ SameButLocal(candidate.v, Operand)
            /\ \/ ~Conf.allowLocalVersion /\ Operand.local = <<>>
               \/ candidate.v.local = Operand.local)

\* C11 witness: with default options '==2.0+abc' has rejected 2.0.
C11_LocalOperandRejectsPlain ==
    /\ SingleClause(OpEq) /\ Conf = DefaultConf
    /\ TheClause.version = <<"2", ".", "0", "+", "a", "b", "c">>
    /\ input = <<"2", ".", "0">>
    /\ ~result.value

\* every stored clause has an operator other than '===' and an operand without local label
PlainClauses ==
    \A i \in 1..Len(Groups) : \A k \in 1..Len(Groups[i]) :
        /\ Groups[i][k].operator # OpArbitrary
        /\ MustParse(TrimSuffix(Groups[i][k].version, Wildcard)).local = <<>>

\* C12: with default options, clauses other than '===' and operands without local
\* label, Check of a version equals Check of the version without its local label.
C12_LocalIgnored ==
    (Checked /\ Conf = DefaultConf /\ PlainClauses) =>
        result.value = Check(constraints.ss, MustParse(Public(candidate.v)))

(***************************************************************************)
(* Properties of the pre-release option                                    *)
(***************************************************************************)
\* C13: when includePreRelease is set, '<X' accepts a candidate, with or without
\* local label, if and only if it is strictly less than X.
C13_PreReleaseIncluded ==
    (SingleClause(OpLt) /\ Conf.includePreRelease) =>
        (result.value <=> LessThan(candidate.v, Operand))

(***************************************************************************)
(* Properties of NewSpecifiers                                             *)
(***************************************************************************)
Built == constraints.done

Request == constraints.request

\* the request is one clause, not the "*" group, with an operator other than '==='
SingleRequest ==
    /\ Built /\ Len(Request.groups) = 1 /\ Len(Request.groups[1]) = 1
    /\ Request.groups[1] # StarGroup
    /\ Request.groups[1][1].operator # OpArbitrary

RequestClause == Request.groups[1][1]

RequestWildcard == HasSuffix(RequestClause.version, Wildcard)

\* the operand without a trailing ".*", parsed
RequestOperand == Parse(TrimSuffix(RequestClause.version, Wildcard))

OrderingOperators == {OpGt, OpLt, OpGe, OpLe, OpCompat}

\* the conditions under which a clause is invalid
InvalidClause ==
    \/ ~RequestOperand.ok
    \/ RequestWildcard /\ RequestClause.operator \in OrderingOperators
    \/ /\ RequestWildcard /\ RequestClause.operator \in {OpEq, OpNe, OpEq1, OpEmpty}
       /\ (~isNull(RequestOperand.v.dev) \/ RequestOperand.v.local # <<>>)
    \/ RequestClause.operator = OpCompat /\ Len(RequestOperand.v.release) < 2
    \/ /\ RequestOperand.v.local # <<>> /\ RequestClause.operator \in OrderingOperators
       /\ ~Request.conf.allowLocalVersion

\* C14: NewSpecifiers returns an error for a clause with an operator other than
\* '===' exactly when the operand does not parse, a wildcard stands with an ordering
\* operator or '~=', a wildcard stands with an equality operator on an operand with
\* dev or local segment, '~=' has an operand with fewer than two release components,
\* or an ordering operator or '~=' has a local operand without allowLocalVersion.
C14_InvalidClauses == SingleRequest => (constraints.err <=> InvalidClause)

\* a group as NewSpecifiers reads it: "*" stands for >=0.0.0
Rewritten(g) == IF g = StarGroup THEN StarClauses ELSE g

\* the group fails the constraint grammar or one of its clauses fails validation
BadGroup(g, c) ==
    \/ Rewritten(g) = <<>>
    \/ ~validConstraint(Rewritten(g))
    \/ \E k \in 1..Len(Rewritten(g)) :
          /\ Rewritten(g)[k].operator # OpArbitrary
          /\ validate(Rewritten(g)[k].operator, Rewritten(g)[k].version, c) # "nil"

\* the stored group holds the clauses of the requested group, in order
StoredAs(stored, g) ==
    /\ Len(stored) = Len(Rewritten(g))
    /\ \A k \in 1..Len(stored) :
          /\ stored[k].operator = Rewritten(g)[k].operator
          /\ stored[k].version = Rewritten(g)[k].version

\* C15: if any group of the requirement is bad, NewSpecifiers returns an error and
\* the empty Specifiers value; otherwise it returns one stored group per requested
\* group, in input order.
C15_NoPartialSuccess ==
    Built =>
        IF \E i \in 1..Len(Request.groups) : BadGroup(Request.groups[i], Request.conf)
        THEN constraints.err /\ constraints.ss = EmptySpecifiers
        ELSE /\ ~constraints.err
             /\ constraints.ss.conf = Request.conf
             /\ Len(constraints.ss.specifiers) = Len(Request.groups)
             /\ \A i \in 1..Len(Request.groups) :
                   StoredAs(constraints.ss.specifiers[i], Request.groups[i])

\* C15 witness: a requirement whose first group is good and whose second group is
\* bad has been refused as a whole.
C15_BadSecondGroupRefused ==
    /\ Built /\ Len(Request.groups) = 2
    /\ ~BadGroup(Request.groups[1], Request.conf)
    /\ BadGroup(Request.groups[2], Request.conf)
    /\ constraints.err /\ constraints.ss = EmptySpecifiers

\* the request is one '===' clause
ArbitraryRequest ==
    /\ Built /\ Len(Request.groups) = 1 /\ Len(Request.groups[1]) = 1
    /\ Request.groups[1][1].operator = OpArbitrary

\* C16: NewSpecifiers accepts a clause '===S' for an arbitrary operand S, and Check
\* for that clause is true if and only if the canonical string of the candidate
\* equals S ignoring letter case.
C16_ArbitraryEquality ==
    ArbitraryRequest =>
        /\ ~constraints.err
        /\ Checked => (result.value <=> ToLower(String(candidate.v)) = ToLower(RequestClause.version))

(***************************************************************************)
(* Properties of Check: no panic                                           *)
(***************************************************************************)
\* C17: for every Specifiers value that NewSpecifiers returned without error and every
\* version that Parse returned without error, Check returns: no text handed to
\* MustParse fails to parse and no slice bound lies outside its slice.
C17_CheckNeverPanics == Checked => ~result.panicked

\* C17 witness: a '~=' clause has been checked against a candidate with a local
\* label and has accepted it; the operand, the candidate's public form and the
\* prefix were parsed on the way.
C17_CompatibleReturned ==
    /\ SingleClause(OpCompat) /\ candidate.v.local # <<>>
    /\ result.value /\ ~result.panicked

=============================================================================
